---- MODULE Spec2Model ----
(***************************************************************************)
(* The incremental batch pipelines of dataform-bqml: table_ml (structured  *)
(* rows, modules/table_ml: src/unnamed/part_005 lines 88-237) and          *)
(* obj_table_ml (object tables, src/modules/object_table_ml.js lines       *)
(* 121-276), together with the warehouse script each of them compiles to:  *)
(* the init_<output> operation, the REPEAT ... UNTIL ... END REPEAT loop    *)
(* around the MERGE of the incremental table, and the CREATE OR REPLACE of *)
(* the non-incremental table.                                              *)
(***************************************************************************)
EXTENDS Integers, Sequences, FiniteSets, TLC

\* ---------------------------------------------------------------- bounds
MaxRows == 3        \* a structured source holds at most this many rows
MaxObjects == 2     \* an object table holds at most this many objects
MaxRetry == 1       \* retries counts the passes with a retryable status up to here
MaxUpdated == 2     \* the `updated` timestamps of objects range over 1..MaxUpdated
MaxArgs == 2            \* arguments of one call of safe_declare_resolvable
MaxDeclared == 4        \* declarations of one target name

\* ------------------------------------------- values of the configuration
BatchSizes == {1, 2}    \* option batch_size
Durations == {0, 1}     \* option batch_duration_secs
NegativeSizes == {-1}   \* option batch_size below zero
LongDurations == {0, 2} \* option batch_duration_secs: none, and more than one pass can take

VARIABLES
    pipeline,             \* "table" (table_ml) or "object" (obj_table_ml)
    batch_size,           \* option batch_size
    batch_duration_secs,  \* option batch_duration_secs
    source,               \* the rows of the source query / object table
    changed,              \* an object of the source has been replaced
    exists,               \* the output table exists
    output,               \* the rows of the output table
    incremental,          \* ctx.incremental() of the current run
    pc,                   \* position of the run
    elapsed,              \* seconds since @@script.creation_time (saturating)
    row_count,            \* @@row_count of the last statement
    batch,                \* rows the last statement selected for the ML function
    ml_input,             \* rows of the table or subquery the ML function was applied to
    prev,                 \* how the previous run ended
    failed,               \* keys of batch whose status was retryable
    retries,              \* passes in which some status was retryable (saturating)
    retrying,             \* keys whose latest invocation returned a retryable status
    terminal,             \* keys that were written with a terminal error status
    iters,                \* table_ml: loop iterations up to the first that wrote no row
    passes,               \* iterations of the REPEAT loop in the current run (saturating)
    zeroSeen,             \* table_ml: an iteration has written no row
    calls,                \* per key: what its first two invocations returned
    scenario,             \* table_ml: progress of the three-row, two-per-batch run
    replaced,             \* key of the processed object replaced since the last run, or <<>>
    outcome,              \* per key: the status every invocation returns, or any
    output2,              \* a second run of the loop from the same table: its rows
    pc2,                  \* ... its position
    elapsed2,             \* ... its seconds since @@script.creation_time
    actions               \* dataform.actions: per target name, the number of declarations

vars == <<pipeline, batch_size, batch_duration_secs, source, changed, exists,
          output, incremental, pc, elapsed, row_count, batch, ml_input, prev, failed,
          retries, retrying, terminal, iters, passes, zeroSeen, calls, scenario, replaced, outcome, output2, pc2, elapsed2, actions>>

config == <<pipeline, batch_size, batch_duration_secs, outcome, actions>>

twin == <<output2, pc2, elapsed2>>

Min2(a, b) == IF a <= b THEN a ELSE b

\* ---------------------------------------------------------------- declarations
\* Target names of data sources.
Names == {"images", "documents", "model"}

\* The value of a property that a JavaScript value does not have.
Undefined == "undefined"

\* An argument is a string name or a configuration object with a name.
Resolvables == [isObject : BOOLEAN, name : Names]

\* obj.name: the name property of a configuration object; a string has none.
NameOf(obj) == IF obj.isObject THEN obj.name ELSE Undefined

\* dataform.actions.some((action) => action.proto.target.name === name)
is_declared(declared, name) == \E n \in Names : declared[n] > 0 /\ n = name

\* declare(source) for a configuration object, declare({name: source}) for a
\* string: one more action with the target name.
declare_resolvable(declared, resolvable) ==
    [declared EXCEPT ![resolvable.name] = @ + 1]

\* Variant: the check is made on the name the declaration will have.
DeclaredName_OfTarget(obj) == obj.name

\* The name safe_declare_resolvable passes to is_declared: obj.name.
DeclaredName(obj) == NameOf(obj)

\* objects.forEach(...): dataform.actions after the first i arguments.
RECURSIVE ForEach(_, _, _)
ForEach(declared, objects, i) ==
    IF i = 0 THEN declared
    ELSE LET before == ForEach(declared, objects, i - 1)
             obj == objects[i]
         IN  IF ~is_declared(before, DeclaredName(obj))
             THEN declare_resolvable(before, obj)
             ELSE before

CeilDiv(a, b) == (a + b - 1) \div b

MaxOf(S) == CHOOSE x \in S : \A y \in S : y <= x

\* ---------------------------------------------------------------- rows
\* Key of the i-th row of a structured source: two key columns.
TableKey(i) == <<(i + 1) \div 2, ((i + 1) % 2) + 1>>

\* Key of the i-th object: its uri.
ObjKey(i) == <<i>>

AllKeys == {TableKey(i) : i \in 1..MaxRows} \cup {ObjKey(i) : i \in 1..MaxObjects}

\* Status columns <operation>_status, as sequences of words.
RetryablePrefix == <<"A", "retryable", "error", "occurred:">>

Success == <<>>

TerminalError == <<"INVALID_ARGUMENT">>

RetryableError == RetryablePrefix \o <<"RESOURCE_EXHAUSTED">>

Statuses == {Success, TerminalError, RetryableError}

\* status LIKE 'pattern%'
Like(status, pattern) ==
    /\ Len(status) >= Len(pattern)
    /\ SubSeq(status, 1, Len(pattern)) = pattern

\* Variant: the pattern 'A retryable error occured:%'.
retryable_error_filter_Occured(status) ==
    ~Like(status, <<"A", "retryable", "error", "occured:">>)

\* `${status_col} NOT LIKE 'A retryable error occurred:%'`
retryable_error_filter(status) == ~Like(status, RetryablePrefix)

accept_filter(R) == retryable_error_filter(R.status)

\* unique_keys: the key columns of the output table.
unique_keys == IF pipeline = "table" THEN <<1, 2>> ELSE <<1>>

\* unique_keys.map((k) => `S.${k} = T.${k}`).join(' AND ')
KeyMatch(S, T) ==
    \A i \in 1..Len(unique_keys) : S.key[unique_keys[i]] = T.key[unique_keys[i]]

\* NOT EXISTS (SELECT * FROM output AS T WHERE S.k = T.k ...)
NotExists(S, T) == ~\E R \in T : KeyMatch(S, R)

\* Variant: LIMIT 1 whatever the batch size.
limit_clause_One(rows, n) ==
    {B \in SUBSET rows : Cardinality(B) = Min2(1, Cardinality(rows))}

\* A count no smaller than any table: the effect of a query without LIMIT.
NoLimit == Cardinality(AllKeys)

\* Variant: batch_size >= 0 ? `LIMIT ${batch_size}` : '' (a negative
\* batch_size emits no LIMIT clause).
limit_count_Optional(n) == IF n >= 0 THEN n ELSE NoLimit

\* `LIMIT ${batch_size}`: the count of the clause is batch_size, whatever
\* its sign.
limit_count(n) == n

\* The warehouse accepts a LIMIT count that is not negative.
ValidLimit(n) == n >= 0

\* Variant: no LIMIT clause.
limit_clause_All(rows, n) == {rows}

\* `LIMIT ${n}` without ORDER BY: any n rows, all of them when there are fewer.
limit_clause(rows, n) ==
    {B \in SUBSET rows : Cardinality(B) = Min2(n, Cardinality(rows))}

\* The ML function: one result row per input row, with a status column.
ml_function(rows, st) ==
    {[key |-> S.key, updated |-> S.updated, status |-> st[S]] : S \in rows}

\* Variant: no accept filter.
Where_NoFilter(rows) == rows

\* ... WHERE ${accept_filter}
Where(rows) == {R \in rows : accept_filter(R)}

\* Variant: INSERT in place of MERGE.
MergeInto_Insert(T, rows) == T \cup rows

\* Variant: a merge that commits one of its rows only.
MergeInto_Partial(T, rows) ==
    IF rows = {} THEN T
    ELSE LET N == CHOOSE N \in rows : TRUE
         IN  {R \in T : ~KeyMatch(N, R)} \cup {N}

\* MERGE of an incremental table with uniqueKey: matched rows are replaced,
\* the others inserted.
MergeInto(T, rows) ==
    {R \in T : ~\E N \in rows : KeyMatch(N, R)} \cup rows

KeysOf(rows) == {R.key : R \in rows}

\* ---------------------------------------------------------------- eligibility
\* Variant: no NOT EXISTS clause.
TableEligible_NoAntiJoin(S, T, inc) == S

\* table_ml: SELECT S.* FROM (source) AS S [WHERE NOT EXISTS (...)]
TableEligible(S, T, inc) ==
    IF inc THEN {R \in S : NotExists(R, T)} ELSE S

\* updated > (SELECT max(updated) FROM output): NULL, so false, on an empty table
Newer(R, T) == T # {} /\ R.updated > MaxOf({X.updated : X \in T})

\* Variant: no NOT EXISTS term, only the `updated` comparison.
ObjEligible_OnlyNewer(S, T) == {R \in S : Newer(R, T)}

\* Variant: the `updated` column is not looked at.
ObjEligible_NoNewer(S, T) == {R \in S : NotExists(R, T)}

\* Variant: every object is a candidate.
ObjEligible_All(S, T) == S

\* obj_table_ml: the rows the candidates are taken from
ObjEligible(S, T) == {R \in S : NotExists(R, T) \/ Newer(R, T)}

\* The statuses the ML function can answer for the rows B: any, unless the
\* outcome of a row is fixed.
AnyStatus == <<"any">>

StatusChoices(B) ==
    LET free == {R \in B : outcome[R.key] = AnyStatus}
    IN  {[R \in B |-> IF R \in free THEN f[R] ELSE outcome[R.key]] : f \in [free -> Statuses]}

\* ---------------------------------------------------------------- history
Retryable(st) == {R \in DOMAIN st : ~retryable_error_filter(st[R])}

\* What is known of a key's first two invocations: "retry" after a first one
\* that was retryable, "retry_ok" when the second, made by a loop iteration,
\* succeeded.
NextCall(c, status, inLoop) ==
    CASE c = "none" -> IF retryable_error_filter(status) THEN "other" ELSE "retry"
      [] c = "retry" -> IF inLoop /\ status = Success THEN "retry_ok" ELSE "other"
      [] OTHER -> c

\* Progress of a loop of table_ml over three source rows with batch_size 2:
\* 1 after an iteration that started from an empty output table and selected
\* two rows, one answering success and one a retryable status; 2 after a next
\* iteration in which every selected row answered success; 3 after the
\* iteration that follows; 0 otherwise.
NextScenario(B, st, inLoop) ==
    IF ~inLoop \/ pipeline # "table" \/ Cardinality(source) # 3 \/ batch_size # 2
    THEN 0
    ELSE CASE /\ output = {} /\ Cardinality(B) = 2
              /\ Cardinality(Retryable(st)) = 1
              /\ \E R \in B : st[R] = Success -> 1
           [] scenario = 1 /\ \A R \in B : st[R] = Success -> 2
           [] scenario = 2 -> 3
           [] OTHER -> 0

\* The ML function is invoked on the rows B and answers the statuses st;
\* written are the rows that reach the output table.
Invoke(B, st, written, inLoop) ==
    /\ batch' = B
    /\ failed' = KeysOf(Retryable(st))
    /\ retries' = IF Retryable(st) = {} THEN retries ELSE Min2(retries + 1, MaxRetry)
    /\ retrying' = (retrying \ KeysOf(B)) \cup KeysOf(Retryable(st))
    /\ terminal' = terminal \cup {R.key : R \in {X \in written : X.status = TerminalError}}
    /\ calls' = [k \in AllKeys |->
                   IF \E R \in B : R.key = k
                   THEN NextCall(calls[k], st[CHOOSE R \in B : R.key = k], inLoop)
                   ELSE calls[k]]
    /\ scenario' = NextScenario(B, st, inLoop)

\* ---------------------------------------------------------------- Init
TableSources == {{[key |-> TableKey(i), updated |-> 0] : i \in 1..n} : n \in 0..MaxRows}

ObjSources ==
    LET stamps(n) == {f \in [1..n -> 1..MaxUpdated] :
                        \A i \in 1..n : \A j \in 1..n : i <= j => f[i] <= f[j]}
    IN  UNION {{{[key |-> ObjKey(i), updated |-> f[i]] : i \in 1..n} : f \in stamps(n)}
               : n \in 0..MaxObjects}

Constructed(sizes, tables, objects, durations) ==
    /\ pipeline \in {"table", "object"}
    /\ batch_size \in sizes
    /\ batch_duration_secs \in durations
    /\ source \in (IF pipeline = "table" THEN tables ELSE objects)
    /\ changed = FALSE
    /\ exists = FALSE
    /\ output = {}
    /\ incremental = FALSE
    /\ pc = "idle"
    /\ elapsed = 0
    /\ row_count = 0
    /\ batch = {}
    /\ ml_input = {}
    /\ prev = "none"
    /\ failed = {}
    /\ retries = 0
    /\ retrying = {}
    /\ terminal = {}
    /\ iters = 0
    /\ passes = 0
    /\ zeroSeen = FALSE
    /\ calls = [k \in AllKeys |-> "none"]
    /\ scenario = 0
    /\ replaced = <<>>
    /\ actions = [n \in Names |-> 0]
    /\ output2 = {}
    /\ pc2 = "idle"
    /\ elapsed2 = 0

\* The ML function may answer any status on any invocation.
Init == Constructed(BatchSizes, TableSources, ObjSources, Durations) /\ outcome = [k \in AllKeys |-> AnyStatus]

\* Every source row has a fixed outcome.
FixedOutcomes ==
    {f \in [AllKeys -> Statuses] : \A k \in AllKeys \ KeysOf(source) : f[k] = Success}

TwinInit == Constructed(BatchSizes, TableSources, ObjSources, Durations) /\ outcome \in FixedOutcomes

\* batch_size may be given a negative value.
AnySizeInit ==
    Constructed(BatchSizes \cup NegativeSizes, TableSources, ObjSources, Durations) /\ outcome = [k \in AllKeys |-> AnyStatus]

\* ---------------------------------------------------------------- actions
Ended == {"created", "converged", "timed_out", "failed"}

\* Variant: the table is published without dependencies.
dependencies_None(action) == {}

\* publish(output_table, {dependencies: [`init_${output_table}`], ...}): the
\* actions that complete before the given action of a run starts.
dependencies(action) == IF action = "main" THEN {"init"} ELSE {}

\* A scheduled invocation of the pipeline starts; ctx.incremental() is
\* whether the output table exists when the run is built.
StartRun ==
    /\ pc = "idle"
    /\ pc' = IF "init" \in dependencies("main") THEN "init" ELSE "main"
    /\ incremental' = exists
    /\ UNCHANGED <<config, twin, source, changed, replaced, exists, output, elapsed, row_count,
                   batch, ml_input, prev, failed, retries, retrying, terminal, iters, passes, zeroSeen, calls,
                   scenario>>

\* The run's job ends; its script variables are gone.
EndRun ==
    /\ pc \in Ended
    /\ pc' = "idle"
    /\ prev' = pc
    /\ elapsed' = 0
    /\ row_count' = 0
    /\ batch' = {}
    /\ ml_input' = {}
    /\ failed' = {}
    /\ scenario' = 0
    /\ replaced' = <<>>
    /\ output2' = {} /\ pc2' = "idle" /\ elapsed2' = 0
    /\ passes' = 0
    /\ UNCHANGED <<config, source, changed, exists, output, incremental,
                   retries, retrying, terminal, iters, zeroSeen, calls>>

\* Variant: CREATE OR REPLACE TABLE, which runs whether or not the table exists.
IfNotExists_OrReplace(present) == TRUE

\* CREATE TABLE IF NOT EXISTS: the statement runs its query and creates the
\* table only when no table of that name is present.
IfNotExists(present) == ~present

\* table_ml: operate(`init_${output_table}`): CREATE TABLE IF NOT EXISTS
table_ml_init ==
    /\ pipeline = "table" /\ pc = "init" /\ ValidLimit(limit_count(batch_size))
    /\ pc' = "main"
    /\ IF ~IfNotExists(exists)
       THEN UNCHANGED <<output, exists, batch, ml_input, failed, retries, retrying, terminal, calls, row_count,
                         scenario>>
       ELSE \E B \in limit_clause(source, limit_count(batch_size)) : \E st \in StatusChoices(B) :
                /\ output' = Where(ml_function(B, st))
                /\ exists' = TRUE
                /\ row_count' = Cardinality(output')
                /\ Invoke(B, st, output', FALSE)
                /\ ml_input' = B
    /\ UNCHANGED <<config, twin, source, changed, replaced, incremental, elapsed, prev, iters, passes, zeroSeen>>

SeedLimit == 10

\* obj_table_ml: operate(`init_${output_table}`): CREATE TABLE IF NOT EXISTS
obj_table_ml_init ==
    /\ pipeline = "object" /\ pc = "init"
    /\ pc' = "main"
    /\ IF ~IfNotExists(exists)
       THEN UNCHANGED <<output, exists, batch, ml_input, failed, retries, retrying, terminal, calls, row_count,
                         scenario>>
       ELSE \E st \in StatusChoices(source) :
            \E seed \in limit_clause(Where(ml_function(source, st)), SeedLimit) :
                /\ output' = seed
                /\ exists' = TRUE
                /\ row_count' = Cardinality(seed)
                /\ Invoke(source, st, output', FALSE)
                /\ ml_input' = source
    /\ UNCHANGED <<config, twin, source, changed, replaced, incremental, elapsed, prev, iters, passes, zeroSeen>>

\* The non-incremental table: CREATE OR REPLACE TABLE output AS (query); no
\* REPEAT is emitted.
table_ml_create ==
    /\ pipeline = "table" /\ pc = "main" /\ ~incremental /\ ValidLimit(limit_count(batch_size))
    /\ \E B \in limit_clause(TableEligible(source, output, FALSE), limit_count(batch_size)) :
       \E st \in StatusChoices(B) :
            /\ output' = Where(ml_function(B, st))
            /\ row_count' = Cardinality(output')
            /\ Invoke(B, st, output', FALSE)
            /\ ml_input' = B
    /\ pc' = "created"
    /\ exists' = TRUE
    /\ UNCHANGED <<config, twin, source, changed, replaced, incremental, elapsed, prev, iters, passes, zeroSeen>>

\* obj_table_ml: the non-incremental query, WHERE accept_filter LIMIT batch_size
obj_table_ml_create ==
    /\ pipeline = "object" /\ pc = "main" /\ ~incremental /\ ValidLimit(limit_count(batch_size))
    /\ \E st \in StatusChoices(source) :
       \E rows \in limit_clause(Where(ml_function(source, st)), limit_count(batch_size)) :
            /\ output' = rows
            /\ row_count' = Cardinality(rows)
            /\ Invoke(source, st, output', FALSE)
            /\ ml_input' = source
    /\ pc' = "created"
    /\ exists' = TRUE
    /\ UNCHANGED <<config, twin, source, changed, replaced, incremental, elapsed, prev, iters, passes, zeroSeen>>

\* preOps of the incremental table: REPEAT; the script's creation time is
\* the origin of the elapsed time.
preOps ==
    /\ pc = "main" /\ incremental /\ ValidLimit(limit_count(batch_size))
    /\ pc' = "iterating"
    /\ elapsed' = 0
    /\ IF outcome[CHOOSE k \in AllKeys : TRUE] = AnyStatus
       THEN UNCHANGED twin
       ELSE output2' = output /\ pc2' = "iterating" /\ elapsed2' = 0
    /\ UNCHANGED <<config, source, changed, replaced, exists, output, incremental, row_count,
                   batch, ml_input, prev, failed, retries, retrying, terminal, iters, passes, zeroSeen, calls,
                   scenario>>

\* Variant: UNTIL (SELECT @@row_count) <= 1 OR ...
Until_OffByOne(rc, secs) ==
    IF rc <= 1 THEN "converged"
    ELSE IF secs >= batch_duration_secs THEN "timed_out"
    ELSE "iterating"

\* postOps: UNTIL (SELECT @@row_count) = 0 OR TIMESTAMP_DIFF(...) >= duration
Until(rc, secs) ==
    IF rc = 0 THEN "converged"
    ELSE IF secs >= batch_duration_secs THEN "timed_out"
    ELSE "iterating"

\* Seconds one iteration can take.
TimeSteps == Durations

\* Variant: the origin of the elapsed time is read again in every pass.
TimestampDiff_PerPass(since, secs) == Min2(secs, batch_duration_secs)

\* TIMESTAMP_DIFF(CURRENT_TIMESTAMP(), @@script.creation_time, SECOND) after a
\* pass of secs seconds that started since seconds after the script's
\* creation (saturating at batch_duration_secs).
TimestampDiff(since, secs) == Min2(since + secs, batch_duration_secs)

Loop(rows, secs) ==
    /\ output' = MergeInto(output, rows)
    /\ row_count' = Cardinality(rows)
    /\ elapsed' = TimestampDiff(elapsed, secs)
    /\ pc' = Until(row_count', elapsed')
    /\ iters' = IF zeroSeen \/ pipeline # "table" THEN iters
                ELSE Min2(iters + 1, MaxRows + 2)
    /\ zeroSeen' = (zeroSeen \/ (pipeline = "table" /\ row_count' = 0))
    /\ passes' = Min2(passes + 1, MaxRows + 2)

\* table_ml: one pass of the REPEAT body
table_ml_iterate ==
    /\ pipeline = "table" /\ pc = "iterating"
    /\ \E B \in limit_clause(TableEligible(source, output, TRUE), limit_count(batch_size)) :
       \E st \in StatusChoices(B) : \E secs \in TimeSteps :
            /\ Loop(Where(ml_function(B, st)), secs)
            /\ Invoke(B, st, Where(ml_function(B, st)), TRUE)
            /\ ml_input' = B
    /\ UNCHANGED <<config, twin, source, changed, replaced, exists, incremental, prev>>

\* obj_table_ml: one pass of the REPEAT body: SET candidates, then the merge
\* of the rows whose key is IN UNNEST(candidates). The query applies the ML
\* function to TABLE source and keeps the candidates' rows of its result, so
\* only their statuses are drawn.
obj_table_ml_iterate ==
    /\ pipeline = "object" /\ pc = "iterating"
    /\ \E C \in limit_clause(ObjEligible(source, output), limit_count(batch_size)) :
       LET candidates == KeysOf(C)
           B == {R \in source : R.key \in candidates}
       IN  \E st \in StatusChoices(B) : \E secs \in TimeSteps :
            /\ Loop(Where(ml_function(B, st)), secs)
            /\ Invoke(B, st, Where(ml_function(B, st)), TRUE)
            /\ ml_input' = source
    /\ UNCHANGED <<config, twin, source, changed, replaced, exists, incremental, prev>>

\* Between runs an object of the object table is replaced by a newer upload
\* (one replacement in a behaviour).
ReplaceObject ==
    /\ pipeline = "object" /\ pc = "idle" /\ ~changed
    /\ \E R \in source : \E u \in 1..MaxUpdated :
            /\ u > R.updated
            /\ source' = (source \ {R}) \cup {[R EXCEPT !.updated = u]}
            /\ replaced' = IF \E T \in output : T.key = R.key /\ T.status = Success
                           THEN R.key ELSE <<>>
    /\ changed' = TRUE
    /\ UNCHANGED <<config, twin, exists, output, incremental, pc, elapsed, row_count,
                   batch, ml_input, prev, failed, retries, retrying, terminal, iters, passes, zeroSeen, calls,
                   scenario>>

\* The second run of the loop of table_ml: one pass of the REPEAT body over
\* its own copy of the output table.
twin_table_ml_iterate ==
    /\ pipeline = "table" /\ pc2 = "iterating"
    /\ \E B \in limit_clause(TableEligible(source, output2, TRUE), limit_count(batch_size)) :
       \E st \in StatusChoices(B) : \E secs \in TimeSteps :
            /\ output2' = MergeInto(output2, Where(ml_function(B, st)))
            /\ elapsed2' = TimestampDiff(elapsed2, secs)
            /\ pc2' = Until(Cardinality(Where(ml_function(B, st))), elapsed2')
    /\ UNCHANGED <<config, source, changed, replaced, exists, output, incremental,
                   pc, elapsed, row_count, batch, ml_input, prev, failed, retries, retrying,
                   terminal, iters, passes, zeroSeen, calls, scenario>>

\* The second run of the loop of obj_table_ml.
twin_obj_table_ml_iterate ==
    /\ pipeline = "object" /\ pc2 = "iterating"
    /\ \E C \in limit_clause(ObjEligible(source, output2), limit_count(batch_size)) :
       LET candidates == KeysOf(C)
           B == {R \in source : R.key \in candidates}
       IN  \E st \in StatusChoices(B) : \E secs \in TimeSteps :
            /\ output2' = MergeInto(output2, Where(ml_function(B, st)))
            /\ elapsed2' = TimestampDiff(elapsed2, secs)
            /\ pc2' = Until(Cardinality(Where(ml_function(B, st))), elapsed2')
    /\ UNCHANGED <<config, source, changed, replaced, exists, output, incremental,
                   pc, elapsed, row_count, batch, ml_input, prev, failed, retries, retrying,
                   terminal, iters, passes, zeroSeen, calls, scenario>>

\* A statement whose LIMIT count is negative is rejected and the run fails:
\* init_<output> of table_ml, and the main query or script of either pipeline.
statement_rejected ==
    /\ ~ValidLimit(limit_count(batch_size))
    /\ (pipeline = "table" /\ pc = "init") \/ pc = "main"
    /\ pc' = "failed"
    /\ UNCHANGED <<config, twin, source, changed, replaced, exists, output, incremental,
                   elapsed, row_count, batch, ml_input, prev, failed, retries, retrying,
                   terminal, iters, passes, zeroSeen, calls, scenario>>

Next ==
    \/ StartRun
    \/ EndRun
    \/ table_ml_init
    \/ obj_table_ml_init
    \/ table_ml_create
    \/ obj_table_ml_create
    \/ preOps
    \/ table_ml_iterate
    \/ obj_table_ml_iterate
    \/ ReplaceObject

Spec == Init /\ [][Next]_vars

\* Two runs of the loop side by side, every row with a fixed outcome: they
\* start from the same output table and differ in the rows LIMIT picks.
TwinNext ==
    \/ Next
    \/ twin_table_ml_iterate
    \/ twin_obj_table_ml_iterate

TwinSpec == TwinInit /\ [][TwinNext]_vars

\* The bootstrap on sources that hold more rows than the seed limit.
SeedRows == SeedLimit + 1

SeedSizes == BatchSizes \cup {SeedRows}

SeedTableSources ==
    {{[key |-> TableKey(i), updated |-> 0] : i \in 1..n} : n \in 0..SeedRows}

SeedObjSources ==
    {{[key |-> ObjKey(i), updated |-> 1] : i \in 1..n} : n \in 0..SeedRows}

SeedKeys == {TableKey(i) : i \in 1..SeedRows} \cup {ObjKey(i) : i \in 1..SeedRows}

\* The first row of the source may be answered with any status, the others
\* are answered with success.
SeedInit ==
    /\ Constructed(SeedSizes, SeedTableSources, SeedObjSources, Durations)
    /\ outcome = [k \in SeedKeys |->
                    IF k \in {TableKey(1), ObjKey(1)} THEN AnyStatus ELSE Success]

SeedNext ==
    \/ StartRun
    \/ table_ml_init
    \/ obj_table_ml_init

SeedSpec == SeedInit /\ [][SeedNext]_vars

\* The warehouse's own time limit stops the script during a pass of the
\* REPEAT body: the MERGE in flight is not committed and the job fails.
iteration_aborted ==
    /\ pc = "iterating"
    /\ pc' = "failed"
    /\ UNCHANGED <<config, twin, source, changed, replaced, exists, output, incremental,
                   elapsed, row_count, batch, ml_input, prev, failed, retries, retrying,
                   terminal, iters, passes, zeroSeen, calls, scenario>>

AbortNext ==
    \/ Next
    \/ iteration_aborted

AbortSpec == Init /\ [][AbortNext]_vars

\* The pipelines with a time budget of several passes, or of none.
LongInit ==
    /\ Constructed(BatchSizes, TableSources, ObjSources, LongDurations)
    /\ outcome = [k \in AllKeys |-> AnyStatus]

LongSpec == LongInit /\ [][Next]_vars

\* Statuses around the retryable pattern: the pattern alone, the pattern
\* misspelt, the pattern after another word, and a part of the pattern.
NearStatuses ==
    {RetryablePrefix,
     <<"A", "retryable", "error", "occured:", "RESOURCE_EXHAUSTED">>,
     <<"INTERNAL">> \o RetryablePrefix,
     <<"A", "retryable", "error">>}

\* Every source row is answered with one fixed status, of any kind.
WideOutcomes ==
    {f \in [AllKeys -> Statuses \cup NearStatuses] :
        \A k \in AllKeys \ KeysOf(source) : f[k] = Success}

FilterInit ==
    /\ Constructed(BatchSizes, TableSources, ObjSources, Durations)
    /\ outcome \in WideOutcomes

FilterSpec == FilterInit /\ [][Next]_vars

\* The arguments of one call of safe_declare_resolvable.
Calls == UNION {[1..n -> Resolvables] : n \in 1..MaxArgs}

\* safe_declare_resolvable(...objects)
safe_declare_resolvable(objects) ==
    /\ actions' = ForEach(actions, objects, Len(objects))
    /\ \A n \in Names : actions'[n] <= MaxDeclared
    /\ UNCHANGED <<pipeline, batch_size, batch_duration_secs, outcome, twin, source,
                   changed, replaced, exists, output, incremental, pc, elapsed,
                   row_count, batch, ml_input, prev, failed, retries, retrying,
                   terminal, iters, passes, zeroSeen, calls, scenario>>

DeclareNext == \E objects \in Calls : safe_declare_resolvable(objects)

\* Calls of safe_declare_resolvable while the project is compiled.
DeclareSpec == Init /\ [][DeclareNext]_vars

\* The pipelines with batch_size of either sign.
AnySizeNext ==
    \/ Next
    \/ statement_rejected

AnySizeSpec == AnySizeInit /\ [][AnySizeNext]_vars

\* The warehouse runs every statement of a script it has started, and the
\* scheduler keeps invoking the pipeline.
FairSpec == Init /\ [][Next]_vars /\ WF_vars(Next)

\* Failures are transient: after MaxRetry passes with a retryable status no
\* invocation returns one any more.
TransientNext == Next /\ (failed' = {} \/ retries < MaxRetry)

TransientSpec == Init /\ [][TransientNext]_vars /\ WF_vars(TransientNext)

TypeOK ==
    /\ pc \in Ended \cup {"idle", "init", "main", "iterating"}
    /\ elapsed \in 0..batch_duration_secs
    /\ KeysOf(batch) \subseteq KeysOf(source)
    /\ KeysOf(output) \subseteq KeysOf(source)

\* ---------------------------------------------------------------- properties
InLoop == pc \in {"iterating", "converged", "timed_out"}

\* C1: in every iteration of an incremental run of table_ml, no source row
\* whose unique key already has a row in the output table is passed to the
\* ML function.
C1_NoResubmission ==
    [][(pipeline = "table" /\ pc = "iterating")
         => \A S \in batch' : ~\E T \in output : T.key = S.key]_vars

\* A run that resumes after a TIMED_OUT run has passed rows to the ML
\* function while the output table held a terminal-failure row.
C1_Witness ==
    /\ pipeline = "table" /\ InLoop /\ prev = "timed_out"
    /\ batch # {}
    /\ \E T \in output : T.status = TerminalError /\ T.key \notin KeysOf(batch)

\* C2: every row of the output table satisfies the accept filter: its
\* status does not begin with 'A retryable error occurred:'.
C2_OutputAccepted ==
    \A T \in output : ~Like(T.status, RetryablePrefix)

\* An incremental merge wrote a row while another row of its batch was
\* rejected for a retryable status.
C2_Witness ==
    /\ InLoop /\ row_count > 0 /\ failed # {}
    /\ \E T \in output : T.key \in KeysOf(batch) \ failed

\* C3: the output table holds at most one row per unique key.
C3_UniqueKey ==
    \A T1 \in output : \A T2 \in output : T1.key = T2.key => T1 = T2

\* A merge has replaced the row of an object by the row of its newer upload.
C3_Witness ==
    /\ pipeline = "object" /\ InLoop /\ changed
    /\ \E S \in batch : \E T \in output :
            T.key = S.key /\ T.updated = S.updated /\ T.updated > 1
    /\ Cardinality(output) > 1

\* C4: when table_ml's loop stops because an iteration wrote no row before
\* the time budget is reached, every row of the source has its key in the
\* output table.
C4_ConvergedMeansDone ==
    (pipeline = "table" /\ pc = "converged" /\ elapsed < batch_duration_secs)
        => \A S \in source : \E T \in output : T.key = S.key

\* C5: on an unchanging source and whatever the statuses returned, the loop of
\* either pipeline reaches CONVERGED or TIMED_OUT after finitely many
\* iterations.
C5_LoopTerminates ==
    (pc = "iterating") ~> (pc \in {"converged", "timed_out"})

\* A loop has ended after a pass with a retryable status and a pass that
\* wrote rows.
C5_Witness ==
    /\ pc \in {"converged", "timed_out"}
    /\ retries > 0
    /\ output # {}
    /\ \E S \in source : S.key \notin KeysOf(output)

\* C6 as stated: with no invocation ever returning a retryable status, the
\* iterations of table_ml up to the first one that writes no row number at
\* most ceil(|source| / batch_size).
C6_Original ==
    (pipeline = "table" /\ retries = 0)
        => iters <= CeilDiv(Cardinality(source), batch_size)

\* C6 amended: for a source that is not empty they number at most
\* ceil(|source| / batch_size), and the one that reaches this number writes
\* no row.
C6_IterationBound ==
    (pipeline = "table" /\ retries = 0 /\ source # {})
        => /\ iters <= CeilDiv(Cardinality(source), batch_size)
           /\ iters = CeilDiv(Cardinality(source), batch_size) => zeroSeen

\* The bound is met: the first iteration without a written row is the
\* second one, after a first that wrote a row.
C6_Witness ==
    /\ pipeline = "table" /\ retries = 0 /\ pc = "converged"
    /\ Cardinality(source) = 3 /\ batch_size = 2
    /\ zeroSeen /\ iters = 2

\* The rows the next pass selects from.
EligibilitySet ==
    IF pipeline = "table" THEN TableEligible(source, output, incremental)
    ELSE IF incremental THEN ObjEligible(source, output) ELSE source

\* C7: a row written with a terminal status is absent from the Eligibility
\* Set of every later pass, the source being unchanged.
C7_TerminalNeverEligible ==
    (~changed /\ (pc = "iterating" \/ (pc = "main" /\ ~incremental)))
        => \A S \in EligibilitySet : S.key \notin terminal

\* C8: a row whose first invocation returned a retryable status and whose
\* second invocation, in a later iteration, returned success has exactly one
\* row in the output table, with the success status.
C8_RetryThenSuccess ==
    \A k \in AllKeys :
        (calls[k] = "retry_ok" /\ ~changed)
            => /\ Cardinality({T \in output : T.key = k}) = 1
               /\ \A T \in output : T.key = k => T.status = Success

\* Two runs after its second invocation succeeded, the row is in the output
\* table.
C8_Witness ==
    /\ ~changed /\ pc = "converged" /\ prev = "converged"
    /\ \E k \in AllKeys : calls[k] = "retry_ok" /\ k \notin KeysOf(batch)

Processed ==
    \A S \in source : \E T \in output :
        T.key = S.key /\ ~Like(T.status, RetryablePrefix)

\* C9: when failures are transient and the pipeline keeps being invoked,
\* eventually every source row has an accepted row in the output table, for
\* good.
C9_EventuallyProcessed == <>[]Processed

\* Over a source of more rows than one batch, a row that failed with a
\* retryable status was invoked again with success, and every row is
\* processed.
C9_Witness ==
    /\ Processed /\ retries = MaxRetry /\ pc = "converged"
    /\ Cardinality(source) > batch_size
    /\ \E k \in AllKeys : calls[k] = "retry_ok"

AllSuccess == \A T \in output : T.status = Success

\* C11: source {A,B,C}, empty output table, batch_size 2: when iteration 1
\* selects two rows of which one succeeds and one is retryable, it writes
\* exactly the one; the eligibility set of iteration 2 is exactly the other
\* two rows, and when both succeed iteration 2 writes 2 rows; the eligibility
\* set of iteration 3 is empty, it writes 0 rows, the loop ends CONVERGED and
\* the output table holds the three rows with success.
C11_Scenario ==
    /\ scenario = 1 =>
            /\ row_count = 1 /\ Cardinality(output) = 1 /\ AllSuccess
            /\ KeysOf(output) = KeysOf(batch) \ failed
            /\ KeysOf(TableEligible(source, output, TRUE))
                    = KeysOf(source) \ KeysOf(output)
            /\ Cardinality(TableEligible(source, output, TRUE)) = 2
    /\ scenario = 2 =>
            /\ row_count = 2
            /\ TableEligible(source, output, TRUE) = {}
            /\ KeysOf(output) = KeysOf(source) /\ AllSuccess
    /\ scenario = 3 =>
            /\ row_count = 0 /\ batch = {} /\ pc = "converged"
            /\ KeysOf(output) = KeysOf(source) /\ Cardinality(output) = 3
            /\ AllSuccess

\* The third iteration of the scenario has ended the loop.
C11_Witness ==
    /\ scenario = 3 /\ pc = "converged" /\ Cardinality(output) = 3

\* The object S is new with respect to the output table T: its key is absent
\* from T, or its `updated` is greater than every `updated` of T.
IsNew(S, T) ==
    \/ \A R \in T : R.key # S.key
    \/ T # {} /\ \A R \in T : S.updated > R.updated

\* C12: in each iteration of obj_table_ml the candidates are at most
\* batch_size keys of source rows that are new with respect to the output
\* table, some are taken whenever a new row exists, and with an empty output
\* table every source row qualifies.
C12_Candidates ==
    [][(pipeline = "object" /\ pc = "iterating") =>
          LET new == {S \in source : IsNew(S, output)}
          IN  /\ batch' \subseteq new
              /\ Cardinality(batch') = Min2(batch_size, Cardinality(new))
              /\ output = {} => new = source]_vars

\* The batch cap has left a new object out of the candidates of an iteration.
C12_Witness ==
    /\ pipeline = "object" /\ InLoop
    /\ Cardinality(batch) = batch_size
    /\ \E S \in source : S.key \notin KeysOf(batch) /\ S.key \notin KeysOf(output)

\* The source row with key k.
SourceRow(k) == CHOOSE S \in source : S.key = k

RowsOf(k) == {T \in output : T.key = k}

C14_NoStaleRowAtConvergence ==
    (pipeline = "object" /\ pc = "converged" /\ retries = 0)
        => \A S \in source : \A T \in output :
                T.key = S.key => T.updated >= S.updated

\* C15: when the loop of obj_table_ml stops because an iteration wrote no
\* row before the time budget is reached, no new row is detectable: no
\* source row has its key absent from the output table or an `updated` newer
\* than the maximum of the output table.
C15_ConvergedMeansNoNewRow ==
    (pipeline = "object" /\ pc = "converged" /\ elapsed < batch_duration_secs)
        => {S \in source : IsNew(S, output)} = {}

\* C16 as stated: in the object pipeline an object whose previous invocation
\* returned a retryable status, and which has not been replaced since, is not
\* in the eligibility set of a later iteration or run.
C16_Original ==
    (pipeline = "object" /\ ~changed /\ pc = "iterating")
        => \A k \in retrying : SourceRow(k) \notin ObjEligible(source, output)

\* C16 amended: such an object has no row in the output table and is in the
\* eligibility set of every later iteration and run; so is, after a
\* replacement, every such object that has no row in the output table.
C16_RetryableIsRetried ==
    pipeline = "object" =>
        \A k \in retrying :
            (~changed \/ k \notin KeysOf(output))
                => /\ k \notin KeysOf(output)
                   /\ SourceRow(k) \in ObjEligible(source, output)

\* A run later than the one in which an object returned a retryable status
\* is about to select its candidates, the object not having been invoked
\* again.
C16_Witness ==
    /\ pipeline = "object" /\ ~changed /\ pc = "iterating" /\ prev = "converged"
    /\ output # {} /\ batch = {}
    /\ retrying # {}

\* C17: with the outcome of every row fixed and the source unchanged, two
\* runs of the loop that differ only in the rows LIMIT batch_size picks end,
\* at convergence, with the same output table.
C17_OrderIndependent ==
    (pc = "converged" /\ pc2 = "converged") => output2 = output

Invoked == KeysOf(output) \cup retrying

C19_BootstrapNoOp ==
    [][(pc = "init" /\ exists)
         => /\ output' = output /\ exists' = exists
            /\ batch' = batch /\ calls' = calls /\ retrying' = retrying]_vars

\* The bootstrap of obj_table_ml has run in a later run, with rows in the
\* output table and source objects that are not in it.
C19_Witness ==
    /\ pipeline = "object" /\ pc = "main" /\ incremental /\ prev = "timed_out"
    /\ output # {} /\ KeysOf(source) \ KeysOf(output) # {}

\* The bootstrap has just created the output table.
Seeded == pc = "main" /\ ~incremental /\ exists

\* C20 as stated: the bootstrap of either pipeline seeds the output table it
\* creates with at most the fixed seed limit of rows, whatever batch_size is.
C20_Original ==
    Seeded => Cardinality(output) <= SeedLimit

\* C20 amended: the bootstrap of obj_table_ml seeds the output table it
\* creates with at most the fixed seed limit of accepted rows, whatever
\* batch_size is; the bootstrap of table_ml seeds it with at most batch_size
\* accepted rows.
C20_SeedBound ==
    Seeded => /\ \A T \in output : ~Like(T.status, RetryablePrefix)
              /\ Cardinality(output) <=
                     (IF pipeline = "object" THEN SeedLimit ELSE batch_size)

\* The bootstrap of obj_table_ml has seeded the output table with the seed
\* limit of rows from a larger source, with a batch_size below the seed limit.
C20_Witness ==
    /\ Seeded /\ pipeline = "object" /\ batch_size < SeedLimit
    /\ Cardinality(source) > SeedLimit /\ Cardinality(output) = SeedLimit

\* The eligibility set of the next iteration.
Eligible ==
    IF pipeline = "table" THEN TableEligible(source, output, TRUE)
    ELSE ObjEligible(source, output)

C22_StopIff ==
    [][pc = "iterating"
         => /\ pc' \in {"converged", "timed_out", "iterating"}
            /\ pc' # "iterating"
                  <=> (row_count' = 0 \/ elapsed' >= batch_duration_secs)
            /\ batch' \subseteq source /\ Cardinality(batch') <= batch_size]_vars

\* table_ml has stopped on an iteration that wrote no row, within the time
\* budget, after iterations that wrote rows.
C22_Witness ==
    /\ pipeline = "table" /\ pc = "converged" /\ iters >= 3
    /\ elapsed < batch_duration_secs /\ row_count = 0

\* C23: an incremental run enters the loop whatever batch_duration_secs is,
\* and the loop ends only by a pass of its body, so the body runs at least
\* once; the elapsed time is measured from one origin, so it never decreases
\* from pass to pass, and a pass that ends with the elapsed time at or above
\* batch_duration_secs is the last of its run.
C23_OnePassFixedOrigin ==
    [][/\ (pc = "main" /\ incremental) => pc' = "iterating"
       /\ pc' \in {"converged", "timed_out"}
            => pc = "iterating" /\ batch' \subseteq source
       /\ pc = "iterating"
            => /\ elapsed' >= elapsed
               /\ elapsed' >= batch_duration_secs => pc' # "iterating"]_vars

\* A run with a budget of two seconds has timed out: its passes took a
\* second at most, so the budget was used up over several of them.
C23_Witness ==
    /\ batch_duration_secs = 2 /\ pc = "timed_out" /\ elapsed = 2
    /\ row_count > 0

\* C24: in every iteration of either pipeline the rows the ML function is
\* applied to are rows of the iteration's eligibility set, batch_size of them
\* at most.
C24_InvokedWithinBatch ==
    [][pc = "iterating"
         => /\ ml_input' \subseteq Eligible
            /\ Cardinality(ml_input') <= batch_size]_vars

\* Identity-Retry: the source rows whose key has no row in the output table
\* or whose row in the output table has a retryable status.
IdentityRetry(S, T) ==
    {R \in S : \/ ~\E X \in T : X.key = R.key
               \/ \E X \in T : X.key = R.key /\ Like(X.status, RetryablePrefix)}

\* C25: in every iteration of an incremental run of table_ml the rows the
\* query selects from are exactly the Identity-Retry rows, whatever their
\* updated value, and the iteration takes batch_size of them, or all of them
\* when there are fewer.
C25_IdentityRetry ==
    [][(pipeline = "table" /\ pc = "iterating")
         => /\ TableEligible(source, output, TRUE) = IdentityRetry(source, output)
            /\ batch' \subseteq IdentityRetry(source, output)
            /\ Cardinality(batch') =
                   Min2(batch_size, Cardinality(IdentityRetry(source, output)))]_vars

\* An iteration of table_ml has taken a row that failed with a retryable
\* status before, next to an output table that holds a terminal-error row.
C25_Witness ==
    /\ pipeline = "table" /\ InLoop /\ batch # {}
    /\ \E k \in KeysOf(batch) : calls[k] \in {"retry", "retry_ok"}
    /\ \E T \in output : T.status = TerminalError /\ T.key \notin KeysOf(batch)

\* C26: in every run the init_<output> operation has completed when the
\* query of the output table starts, and the output table exists whenever
\* that query, an eligibility query or a merge runs.
C26_InitFirst ==
    [][/\ pc' = "main" => pc = "init"
       /\ pc \in {"main", "iterating"} => exists
       /\ (pc' \in {"iterating", "created", "converged", "timed_out"} /\ pc' # pc)
            => pc \in {"main", "iterating"}]_vars

\* The first run's bootstrap has created the output table, and the query of
\* the output table is about to start.
C26_Witness ==
    /\ pc = "main" /\ ~incremental /\ exists /\ prev = "none" /\ source # {}

\* C27: once the bootstrap has created the output table, no step removes a
\* unique key from it: every key of the output table before a step is a key
\* of the output table after it, in every iteration and run.
C27_KeysNeverShrink ==
    [][exists => KeysOf(output) \subseteq KeysOf(output')]_vars

\* The status begins with 'A retryable error occurred:'.
BeginsRetryable(status) ==
    /\ Len(status) >= 4
    /\ status[1] = "A" /\ status[2] = "retryable"
    /\ status[3] = "error" /\ status[4] = "occurred:"

C29_DeclaredOnce ==
    \A n \in Names : actions[n] <= 1


\* C30: in every iteration of the loop of either pipeline, whatever the time
\* budget, no row written by the merge is in the eligibility set of the next
\* iteration and the next eligibility set is a subset of the present one, so
\* it is strictly smaller after an iteration that wrote a row; a run makes
\* at most |source| + 1 iterations.
C30_EligibleShrinks ==
    [][(pc = "iterating" /\ pc' # "failed")
         => /\ \A R \in Eligible' : R.key \notin (KeysOf(batch') \ failed')
            /\ Eligible' \subseteq Eligible
            /\ row_count' > 0 => Cardinality(Eligible') < Cardinality(Eligible)
            /\ passes' <= Cardinality(source) + 1]_vars

\* A run over three rows, none of them in the output table when its loop
\* started, has taken four iterations: one row each, then none.
C30_Witness ==
    /\ pc = "converged" /\ Cardinality(source) = MaxRows
    /\ passes = Cardinality(source) + 1
    /\ KeysOf(output) = KeysOf(source)
====
